---- MODULE Spec2Model ----
(***************************************************************************)
(* A model of m3u8_cutter (src/main.py): time_to_seconds, parse_m3u8,      *)
(* filter_segments, write_output, convert_to_mp4 and main.                 *)
(*                                                                         *)
(* Python strings are sequences of one-character strings, so that split,   *)
(* strip, startswith, endswith, int() and float() are computed on the      *)
(* characters.  A parsed duration is held in tenths of a second            *)
(* (Scale), and the lines of the model use only fractions that a binary    *)
(* float holds exactly, so the float sums of the code are exact here.      *)
(***************************************************************************)
EXTENDS Integers, Sequences, FiniteSets, TLC

VARIABLES
    pc,             \* position of the run
    args,           \* argparse namespace: url, start_time, end_time, convert
    time_str,       \* argument of time_to_seconds (SpecTime)
    time_ret,       \* what time_to_seconds returned or raised
    lines,          \* response.text.splitlines() / argument of filter_segments
    start_seconds,  \* window start
    end_seconds,    \* window end
    filtered,       \* what filter_segments returned or raised
    base_url,       \* urljoin(url, ".") / argument of write_output
    file,           \* the output playlist file: absent, or its lines
    response,       \* outcome of requests.get / raise_for_status
    events,         \* the I/O of the run, in order
    stdout,         \* the messages printed, in order
    exc,            \* the exception in flight inside main's try block
    escaped         \* the exception that left main, or "none"

vars == <<pc, args, time_str, time_ret, lines, start_seconds, end_seconds,
          filtered, base_url, file, response, events, stdout, exc, escaped>>

----------------------------------------------------------------------------
(* Bounds *)

MaxTimeLen == 6

MaxLines == 3

----------------------------------------------------------------------------
(* Python str helpers *)

Range(s) == {s[k] : k \in DOMAIN s}

StartsWith(s, p) == Len(s) >= Len(p) /\ SubSeq(s, 1, Len(p)) = p

EndsWith(s, p) == Len(s) >= Len(p) /\ SubSeq(s, Len(s) - Len(p) + 1, Len(s)) = p

IsSpace(c) == c = " "

RECURSIVE LStrip(_)
LStrip(s) == IF s # <<>> /\ IsSpace(Head(s)) THEN LStrip(Tail(s)) ELSE s

RECURSIVE RStrip(_)
RStrip(s) ==
    IF s # <<>> /\ IsSpace(s[Len(s)]) THEN RStrip(SubSeq(s, 1, Len(s) - 1)) ELSE s

\* str.strip()
Strip(s) == RStrip(LStrip(s))

\* str.rstrip(",")
RECURSIVE RStripComma(_)
RStripComma(s) ==
    IF s # <<>> /\ s[Len(s)] = ","
    THEN RStripComma(SubSeq(s, 1, Len(s) - 1))
    ELSE s

\* str.split(":"): n separators give n + 1 parts
RECURSIVE SplitColon(_)
SplitColon(s) ==
    IF ":" \notin Range(s)
    THEN <<s>>
    ELSE LET k == CHOOSE j \in DOMAIN s :
                      s[j] = ":" /\ \A l \in 1..(j - 1) : s[l] # ":"
         IN  <<SubSeq(s, 1, k - 1)>> \o SplitColon(SubSeq(s, k + 1, Len(s)))

Digits == <<"0", "1", "2", "3", "4", "5", "6", "7", "8", "9">>

IsDigit(c) == c \in Range(Digits)

DigitVal(c) == (CHOOSE k \in DOMAIN Digits : Digits[k] = c) - 1

\* value of a run of decimal digits, underscores skipped
RECURSIVE DigitsVal(_, _)
DigitsVal(s, acc) ==
    IF s = <<>> THEN acc
    ELSE IF Head(s) = "_" THEN DigitsVal(Tail(s), acc)
    ELSE DigitsVal(Tail(s), acc * 10 + DigitVal(Head(s)))

\* digits, with single underscores allowed between two digits
IsDigitRun(s) ==
    /\ s # <<>>
    /\ \A k \in DOMAIN s : IsDigit(s[k]) \/ s[k] = "_"
    /\ IsDigit(s[1]) /\ IsDigit(s[Len(s)])
    /\ \A k \in 1..(Len(s) - 1) : ~(s[k] = "_" /\ s[k + 1] = "_")

IsSign(c) == c \in {"+", "-"}

\* int(x) on a str: surrounding whitespace, an optional sign, decimal digits.
\* [ok |-> FALSE] stands for ValueError.
PyInt(x) ==
    LET t    == Strip(x)
        body == IF t # <<>> /\ IsSign(t[1]) THEN Tail(t) ELSE t
        neg  == t # <<>> /\ t[1] = "-"
    IN  IF IsDigitRun(body)
        THEN [ok |-> TRUE, val |-> IF neg THEN 0 - DigitsVal(body, 0)
                                          ELSE DigitsVal(body, 0)]
        ELSE [ok |-> FALSE, val |-> 0]

----------------------------------------------------------------------------
(* time_to_seconds *)

FormatError == [kind |-> "ValueError", val |-> 0]

\* the sum of line 13 with the minutes weighted as seconds
TimeValueSlip(h, m, s) == h * 3600 + m + s

TimeValue(h, m, s) == h * 3600 + m * 60 + s

\* h, m, s = map(int, time_str.split(":")): unpacking anything but three
\* values and int() of a bad component both raise ValueError, re-raised as
\* the format error of line 15.
time_to_seconds(str) ==
    LET parts == SplitColon(str)
    IN  IF Len(parts) # 3 THEN FormatError
        ELSE LET h == PyInt(parts[1])
                 m == PyInt(parts[2])
                 s == PyInt(parts[3])
             IN  IF h.ok /\ m.ok /\ s.ok
                 THEN [kind |-> "ok", val |-> TimeValue(h.val, m.val, s.val)]
                 ELSE FormatError

----------------------------------------------------------------------------
(* filter_segments *)

\* durations and total_time are counted in 1/Scale seconds
Scale == 10

\* float(x) on a str: surrounding whitespace, an optional sign, then digits
\* with an optional point and fraction ("10", "10.0", ".5", "5.").  The value
\* is in 1/Scale seconds; the lines of the model carry at most one fraction
\* digit and no exponent, "inf" or "nan".  [ok |-> FALSE] is ValueError.
PyFloat(x) ==
    LET t     == Strip(x)
        body  == IF t # <<>> /\ IsSign(t[1]) THEN Tail(t) ELSE t
        neg   == t # <<>> /\ t[1] = "-"
        dots  == {k \in DOMAIN body : body[k] = "."}
        p     == IF dots = {} THEN Len(body) + 1 ELSE CHOOSE k \in dots : TRUE
        whole == SubSeq(body, 1, p - 1)
        frac  == SubSeq(body, p + 1, Len(body))
        okw   == whole = <<>> \/ IsDigitRun(whole)
        okf   == frac = <<>> \/ IsDigitRun(frac)
        mag   == DigitsVal(whole, 0) * Scale
                   + (IF frac = <<>> THEN 0 ELSE DigitVal(frac[1]))
    IN  IF Cardinality(dots) <= 1 /\ okw /\ okf /\ (whole # <<>> \/ frac # <<>>)
        THEN [ok |-> TRUE, val |-> IF neg THEN 0 - mag ELSE mag]
        ELSE [ok |-> FALSE, val |-> 0]

EXTINF == <<"#", "E", "X", "T", "I", "N", "F">>

TS == <<".", "t", "s">>

ENDLIST == <<"#", "E", "X", "T", "-", "X", "-", "E", "N", "D", "L", "I", "S", "T">>

\* line 56 with > for >=
StartReachedStrict(total_time, start) == total_time > start * Scale

\* line 56: if total_time >= start_seconds
StartReached(total_time, start) == total_time >= start * Scale

\* line 60: if total_time >= end_seconds: break
EndReached(total_time, end) == total_time >= end * Scale

\* line 70 with the header kept only inside the range
KeepHeaderInRange(add_start, inside_range) == add_start /\ inside_range

\* line 70: if add_start
KeepHeader(add_start, inside_range) == add_start

\* line 74: if inside_range and line.endswith(".ts")
KeepReference(inside_range, line) == inside_range /\ EndsWith(line, TS)

\* The loop of lines 48-75 from line i on.  st holds the locals; st.idx is the
\* list of the positions whose (stripped) line was appended to result, in
\* the order of the appends.
RECURSIVE FilterFrom(_, _, _, _, _)
FilterFrom(ls, start, end, i, st) ==
    IF i > Len(ls) THEN [kind |-> "ok", idx |-> st.idx]
    ELSE
    LET line == Strip(ls[i])
    IN  IF StartsWith(line, EXTINF)
        THEN LET parts == SplitColon(line)
             IN  IF Len(parts) < 2 THEN [kind |-> "IndexError", idx |-> <<>>]
                 ELSE
                 LET d == PyFloat(RStripComma(parts[2]))
                     inside == st.inside_range \/ StartReached(st.total_time, start)
                     idx1 == IF inside THEN Append(st.idx, i) ELSE st.idx
                     idx2 == IF KeepHeader(FALSE, inside)
                             THEN Append(idx1, i) ELSE idx1
                     idx3 == IF KeepReference(inside, line)
                             THEN Append(idx2, i) ELSE idx2
                 IN  IF ~d.ok THEN [kind |-> "ValueError", idx |-> <<>>]
                     ELSE IF EndReached(st.total_time, end)
                     THEN [kind |-> "ok", idx |-> st.idx]
                     ELSE FilterFrom(ls, start, end, i + 1,
                                     [total_time   |-> st.total_time + d.val,
                                      inside_range |-> inside,
                                      add_start    |-> FALSE,
                                      idx          |-> idx3])
        ELSE LET idx1 == IF KeepHeader(st.add_start, st.inside_range)
                         THEN Append(st.idx, i) ELSE st.idx
                 idx2 == IF KeepReference(st.inside_range, line)
                         THEN Append(idx1, i) ELSE idx1
             IN  FilterFrom(ls, start, end, i + 1, [st EXCEPT !.idx = idx2])

\* lines 42-45
FilterLocals ==
    [total_time |-> 0, inside_range |-> FALSE, add_start |-> TRUE, idx |-> <<>>]

FilterIdx(ls, start, end) == FilterFrom(ls, start, end, 1, FilterLocals)

\* filter_segments: the appended lines (val), or the exception of line 53;
\* idx keeps the position each appended line came from
filter_segments(ls, start, end) ==
    LET r == FilterIdx(ls, start, end)
    IN  [kind |-> r.kind,
         val  |-> [k \in DOMAIN r.idx |-> Strip(ls[r.idx[k]])],
         idx  |-> r.idx]

----------------------------------------------------------------------------
(* write_output *)

\* line 85 writing the bare reference
WrittenLineBare(url, line) == line

\* lines 84-87: one written line (without its "\n") per filtered line
WrittenLine(url, line) ==
    IF EndsWith(line, TS) THEN url \o <<"/">> \o line ELSE line

\* lines 83-89: the lines of the file after the with block
write_output(segs, url) ==
    [k \in DOMAIN segs |-> WrittenLine(url, segs[k])] \o <<ENDLIST>>

----------------------------------------------------------------------------
(* Inputs *)

SeqsUpTo(S, n) == UNION {[1..k -> S] : k \in 0..n}

\* characters of the strings handed to time_to_seconds
TimeChars == {"1", ":", "-", " ", "x"}

T_99_99_99 == <<"9", "9", ":", "9", "9", ":", "9", "9">>

T_plus == <<"+", "1", ":", "1", "_", "0", ":", "0", "2">>

TimeStrings == SeqsUpTo(TimeChars, MaxTimeLen) \cup {T_99_99_99, T_plus}

\* lines of a playlist
L_M3U == <<"#", "E", "X", "T", "M", "3", "U">>

L_Inf10 == EXTINF \o <<":", "1", "0", ".", "0", ",">>

L_Inf2h == EXTINF \o <<":", "2", ".", "5", ",">>

L_InfNeg == EXTINF \o <<":", "-", "5", ",">>

L_InfTitle == EXTINF \o <<":", "1", "0", ",", "t">>

L_InfBare == EXTINF

L_InfTs == EXTINF \o <<":", "1", "0", ":", "a">> \o TS

L_SegA == <<"a">> \o TS

L_SegB == <<" ", "b">> \o TS \o <<" ">>

LinePool ==
    {L_M3U, ENDLIST, L_Inf10, L_Inf2h, L_InfNeg, L_InfTitle, L_InfBare,
     L_InfTs, L_SegA, L_SegB}

\* four segments of 10 s between a header and an end-of-list line
P_Four ==
    <<L_M3U, L_Inf10, L_SegA, L_Inf10, L_SegB, L_Inf10, L_SegA, L_Inf10, L_SegB,
      ENDLIST>>

P_Mixed == <<L_M3U, L_Inf2h, L_SegA, L_M3U, L_Inf10, L_SegB, L_Inf2h, L_SegA>>

P_Header == <<L_M3U, ENDLIST>>

NamedPlaylists == {P_Four, P_Mixed, P_Header}

Playlists == SeqsUpTo(LinePool, MaxLines) \cup NamedPlaylists

Seconds == {0, 10, 15, 25}

U_Deep == <<"h", "t", "t", "p", ":", "/", "/", "h", "/", "v", "/", "x">>

U_Host == <<"h", "t", "t", "p", ":", "/", "/", "h">>

Urls == {U_Deep, U_Host}

\* urljoin(url, "."): the url up to and with the last "/" of its path, or
\* the url and "/" when it has no path (urls without query or fragment)
UrlJoinDot(url) ==
    LET slashes == {k \in DOMAIN url : url[k] = "/"}
        auth    == CHOOSE k \in slashes :
                       k > 1 /\ url[k - 1] = "/" /\ \A j \in slashes : j >= k - 1
        last    == CHOOSE k \in slashes : \A j \in slashes : j <= k
    IN  IF last = auth THEN url \o <<"/">> ELSE SubSeq(url, 1, last)

BaseUrls == {UrlJoinDot(u) : u \in Urls}

T_0 == <<"0", ":", "0", ":", "0">>

T_15 == <<"0", "0", ":", "0", "0", ":", "1", "5">>

T_25 == <<"0", ":", "0", ":", "2", "5">>

T_Bad == <<"1", "5">>

T_Neg == <<"-", "0", ":", "0", ":", "5">>

TimeArgs == {T_0, T_15, T_25, T_Bad, T_Neg}

Bodies == SeqsUpTo(LinePool, 1) \cup NamedPlaylists

----------------------------------------------------------------------------
(* State *)

NoReturn == [kind |-> "none", val |-> 0]

NoResult == [kind |-> "none", val |-> <<>>, idx |-> <<>>]

Absent == [exists |-> FALSE, content |-> <<>>]

NoExc == [type |-> "none", msg |-> "none"]

NoArgs == [url |-> <<>>, start_time |-> <<>>, end_time |-> <<>>, convert |-> FALSE]

Idle ==
    /\ time_str = <<>> /\ time_ret = NoReturn
    /\ lines = <<>> /\ start_seconds = 0 /\ end_seconds = 0
    /\ filtered = NoResult /\ base_url = <<>> /\ file = Absent
    /\ response = "none" /\ events = <<>> /\ stdout = <<>>
    /\ exc = NoExc /\ escaped = "none"

\* main after parse_args (line 129)
Init ==
    /\ pc = "main"
    /\ args \in [url : Urls, start_time : TimeArgs, end_time : TimeArgs,
                 convert : BOOLEAN]
    /\ Idle

----------------------------------------------------------------------------
(* parse_m3u8 *)

Failures == {"ConnectionError", "Timeout", "HTTPError"}

\* lines 21-22, 27-28: the GET and raise_for_status succeed
GetOk ==
    /\ pc = "main"
    /\ \E body \in Bodies : lines' = body
    /\ response' = "ok"
    /\ events' = Append(events, "GET")
    /\ base_url' = UrlJoinDot(args.url)
    /\ pc' = "times"
    /\ UNCHANGED <<args, time_str, time_ret, start_seconds, end_seconds,
                   filtered, file, stdout, exc, escaped>>

\* line 25 left out: the handler falls through to the rest of parse_m3u8
FetchFailureFallsThrough == "times"

\* line 25: return
AfterFetchFailure == "after_parse"

\* lines 23-25: a RequestException is printed and parse_m3u8 returns
GetFails ==
    /\ pc = "main"
    /\ \E cause \in Failures : response' = cause
    /\ events' = Append(events, "GET")
    /\ stdout' = Append(stdout, [text   |-> "Failed to download m3u8 file",
                                 detail |-> response'])
    /\ pc' = AfterFetchFailure
    /\ UNCHANGED <<args, time_str, time_ret, lines, start_seconds, end_seconds,
                   filtered, base_url, file, exc, escaped>>

\* lines 30-34: the exception raised, or NoExc
TimesExc ==
    LET s == time_to_seconds(args.start_time)
        e == time_to_seconds(args.end_time)
    IN  IF s.kind # "ok" \/ e.kind # "ok"
        THEN [type |-> "ValueError", msg |-> "Invalid time format. Use hh:mm:ss."]
        ELSE IF s.val >= e.val
        THEN [type |-> "ValueError", msg |-> "Start time must be before end time."]
        ELSE NoExc

\* lines 30-34 without an exception
TimesOk ==
    /\ pc = "times"
    /\ TimesExc = NoExc
    /\ start_seconds' = time_to_seconds(args.start_time).val
    /\ end_seconds' = time_to_seconds(args.end_time).val
    /\ pc' = "filter"
    /\ UNCHANGED <<args, time_str, time_ret, lines, filtered, base_url, file,
                   response, events, stdout, exc, escaped>>

\* lines 30-34 raising ValueError
TimesRaise ==
    /\ pc = "times"
    /\ TimesExc # NoExc
    /\ exc' = TimesExc
    /\ pc' = "except"
    /\ UNCHANGED <<args, time_str, time_ret, lines, start_seconds, end_seconds,
                   filtered, base_url, file, response, events, stdout, escaped>>

\* line 36 returning
FilterReturns ==
    /\ pc = "filter"
    /\ filter_segments(lines, start_seconds, end_seconds).kind = "ok"
    /\ filtered' = filter_segments(lines, start_seconds, end_seconds)
    /\ pc' = "write"
    /\ UNCHANGED <<args, time_str, time_ret, lines, start_seconds, end_seconds,
                   base_url, file, response, events, stdout, exc, escaped>>

\* line 36 raising the ValueError or IndexError of line 53
FilterRaises ==
    /\ pc = "filter"
    /\ filter_segments(lines, start_seconds, end_seconds).kind # "ok"
    /\ filtered' = filter_segments(lines, start_seconds, end_seconds)
    /\ exc' = [type |-> filtered'.kind, msg |-> "line 53"]
    /\ pc' = "except"
    /\ UNCHANGED <<args, time_str, time_ret, lines, start_seconds, end_seconds,
                   base_url, file, response, events, stdout, escaped>>

\* line 37, lines 82-91: the file is opened for writing, written and closed
WriteOutput ==
    /\ pc = "write"
    /\ events' = Append(events, "open_w")
    /\ file' = [exists |-> TRUE, content |-> write_output(filtered.val, base_url)]
    /\ stdout' = Append(stdout, [text |-> "New m3u8 file saved", detail |-> ""])
    /\ pc' = "after_parse"
    /\ UNCHANGED <<args, time_str, time_ret, lines, start_seconds, end_seconds,
                   filtered, base_url, response, exc, escaped>>

\* line 82 raising OSError: the path cannot be opened for writing
WriteFails ==
    /\ pc = "write"
    /\ exc' = [type |-> "OSError", msg |-> "line 82"]
    /\ pc' = "except"
    /\ UNCHANGED <<args, time_str, time_ret, lines, start_seconds, end_seconds,
                   filtered, base_url, file, response, events, stdout, escaped>>

----------------------------------------------------------------------------
(* main and convert_to_mp4 *)

\* lines 133-136: both handlers print and main goes on to line 138
MainExcept ==
    /\ pc = "except"
    /\ stdout' = Append(stdout, [text   |-> IF exc.type = "ValueError"
                                            THEN "Error"
                                            ELSE "An unexpected error occurred",
                                 detail |-> exc.msg])
    /\ exc' = NoExc
    /\ pc' = "after_parse"
    /\ UNCHANGED <<args, time_str, time_ret, lines, start_seconds, end_seconds,
                   filtered, base_url, file, response, events, escaped>>

\* line 138 with args.convert false
NoConvert ==
    /\ pc = "after_parse"
    /\ ~args.convert
    /\ pc' = "done"
    /\ UNCHANGED <<args, time_str, time_ret, lines, start_seconds, end_seconds,
                   filtered, base_url, file, response, events, stdout, exc,
                   escaped>>

\* lines 138-141, 109-110: ffmpeg runs on the playlist file and exits with 0
ConvertOk ==
    /\ pc = "after_parse"
    /\ args.convert
    /\ file.exists
    /\ events' = Append(events, "ffmpeg")
    /\ stdout' = Append(stdout, [text |-> "Conversion complete", detail |-> ""])
    /\ pc' = "done"
    /\ UNCHANGED <<args, time_str, time_ret, lines, start_seconds, end_seconds,
                   filtered, base_url, file, response, exc, escaped>>

\* lines 138-141, 109, 111-112: ffmpeg exits with a non-zero status
ConvertExitsNonZero ==
    /\ pc = "after_parse"
    /\ args.convert
    /\ events' = Append(events, "ffmpeg")
    /\ stdout' = Append(stdout, [text   |-> "Error occurred during conversion",
                                 detail |-> "CalledProcessError"])
    /\ pc' = "done"
    /\ UNCHANGED <<args, time_str, time_ret, lines, start_seconds, end_seconds,
                   filtered, base_url, file, response, exc, escaped>>

\* lines 138-141, 109: subprocess.run cannot launch ffmpeg and raises
\* FileNotFoundError, which line 111 does not catch and which is raised
\* outside the try block of lines 131-136
ConvertLaunchFails ==
    /\ pc = "after_parse"
    /\ args.convert
    /\ events' = Append(events, "ffmpeg")
    /\ escaped' = "FileNotFoundError"
    /\ pc' = "crashed"
    /\ UNCHANGED <<args, time_str, time_ret, lines, start_seconds, end_seconds,
                   filtered, base_url, file, response, stdout, exc>>

Next ==
    \/ GetOk
    \/ GetFails
    \/ TimesOk
    \/ TimesRaise
    \/ FilterReturns
    \/ FilterRaises
    \/ WriteOutput
    \/ WriteFails
    \/ MainExcept
    \/ NoConvert
    \/ ConvertOk
    \/ ConvertExitsNonZero
    \/ ConvertLaunchFails

Spec == Init /\ [][Next]_vars

----------------------------------------------------------------------------
(* filter_segments then write_output, on every playlist and window *)

InitFilter ==
    /\ pc = "filter"
    /\ args = NoArgs
    /\ lines \in Playlists
    /\ start_seconds \in Seconds
    /\ end_seconds \in Seconds
    /\ base_url = UrlJoinDot(U_Deep)
    /\ time_str = <<>> /\ time_ret = NoReturn
    /\ filtered = NoResult /\ file = Absent
    /\ response = "ok" /\ events = <<>> /\ stdout = <<>>
    /\ exc = NoExc /\ escaped = "none"

NextFilter == FilterReturns \/ FilterRaises \/ WriteOutput \/ WriteFails

SpecFilter == InitFilter /\ [][NextFilter]_vars

----------------------------------------------------------------------------
(* write_output on every list of lines *)

InitWrite ==
    /\ pc = "write"
    /\ args = NoArgs
    /\ filtered \in [kind : {"ok"}, val : SeqsUpTo(LinePool, MaxLines),
                     idx : {<<>>}]
    /\ base_url \in BaseUrls
    /\ time_str = <<>> /\ time_ret = NoReturn
    /\ lines = <<>> /\ start_seconds = 0 /\ end_seconds = 0 /\ file = Absent
    /\ response = "ok" /\ events = <<>> /\ stdout = <<>>
    /\ exc = NoExc /\ escaped = "none"

NextWrite == WriteOutput \/ WriteFails

SpecWrite == InitWrite /\ [][NextWrite]_vars

----------------------------------------------------------------------------
(* time_to_seconds on every string *)

InitTime ==
    /\ pc = "time_to_seconds"
    /\ args = NoArgs
    /\ time_str \in TimeStrings
    /\ time_ret = NoReturn
    /\ lines = <<>> /\ start_seconds = 0 /\ end_seconds = 0
    /\ filtered = NoResult /\ base_url = <<>> /\ file = Absent
    /\ response = "none" /\ events = <<>> /\ stdout = <<>>
    /\ exc = NoExc /\ escaped = "none"

\* lines 11-15
TimeToSeconds ==
    /\ pc = "time_to_seconds"
    /\ time_ret' = time_to_seconds(time_str)
    /\ pc' = IF time_ret'.kind = "ok" THEN "returned" ELSE "raised"
    /\ UNCHANGED <<args, time_str, lines, start_seconds, end_seconds, filtered,
                   base_url, file, response, events, stdout, exc, escaped>>

NextTime == TimeToSeconds

SpecTime == InitTime /\ [][NextTime]_vars

----------------------------------------------------------------------------
(* Properties of filter_segments (SpecFilter) *)

Stripped(ls) == [k \in DOMAIN ls |-> Strip(ls[k])]

IsDurationLine(line) == StartsWith(line, EXTINF)

IsReferenceLine(line) == EndsWith(line, TS)

\* the duration a duration-annotation line carries, as line 53 reads it
DurationOf(line) ==
    LET parts == SplitColon(line)
    IN  IF Len(parts) < 2 THEN [ok |-> FALSE, val |-> 0]
        ELSE PyFloat(RStripComma(parts[2]))

DurationLines(ls) == {k \in DOMAIN ls : IsDurationLine(Strip(ls[k]))}

\* the summed duration of the segments before position i
RECURSIVE CumulativeBefore(_, _)
CumulativeBefore(ls, i) ==
    IF i <= 1 THEN 0
    ELSE CumulativeBefore(ls, i - 1)
           + (IF IsDurationLine(Strip(ls[i - 1]))
              THEN DurationOf(Strip(ls[i - 1])).val ELSE 0)

NonNegativeDurations(ls) ==
    \A k \in DurationLines(ls) :
        DurationOf(Strip(ls[k])).ok /\ DurationOf(Strip(ls[k])).val >= 0

InWindow(c) == start_seconds * Scale <= c /\ c < end_seconds * Scale

FilterReturned == pc \in {"write", "after_parse"} /\ filtered.kind = "ok"

IsDirective(line) == ~IsDurationLine(line) /\ ~IsReferenceLine(line)

\* the lines before the first duration-annotation line
HeaderCount(ls) ==
    IF DurationLines(ls) = {} THEN Len(ls)
    ELSE (CHOOSE k \in DurationLines(ls) : \A j \in DurationLines(ls) : k <= j) - 1

\* C8 as stated: every input line that is neither a duration-annotation line
\* nor a segment-reference line is present in the result, wherever it stands.
C8_EveryDirectiveKept ==
    FilterReturned
    => \A i \in DOMAIN lines :
          IsDirective(Strip(lines[i])) => Strip(lines[i]) \in Range(filtered.val)

\* C8 amended: the lines that precede the first duration-annotation line are
\* the first lines of the result, in order and for every window; a line after
\* it that is neither a duration line nor a reference line is not kept.
C8_HeaderLinesKept ==
    FilterReturned
    => /\ Len(filtered.val) >= HeaderCount(lines)
       /\ SubSeq(filtered.val, 1, HeaderCount(lines))
            = SubSeq(Stripped(lines), 1, HeaderCount(lines))
       /\ \A i \in DOMAIN lines :
             (i > HeaderCount(lines) /\ IsDirective(Strip(lines[i])))
             => i \notin Range(filtered.idx)

\* the header line is kept and the directive between the two segments in the
\* window [0,10) is dropped
C8_Witness ==
    /\ FilterReturned
    /\ lines = P_Mixed /\ start_seconds = 0 /\ end_seconds = 10
    /\ filtered.val = <<L_M3U, L_Inf2h, L_SegA, L_Inf10, Strip(L_SegB)>>

\* a is b with some elements left out
RECURSIVE IsSubsequence(_, _)
IsSubsequence(a, b) ==
    IF a = <<>> THEN TRUE
    ELSE IF b = <<>> THEN FALSE
    ELSE IF Head(a) = Head(b) THEN IsSubsequence(Tail(a), Tail(b))
    ELSE IsSubsequence(a, Tail(b))

\* C9: the result is an ordered subsequence of the stripped input lines; each
\* input line contributes at most one output line.
C9_ResultIsSubsequence ==
    FilterReturned
    => /\ IsSubsequence(filtered.val, Stripped(lines))
       /\ \A j, k \in DOMAIN filtered.idx : j < k => filtered.idx[j] < filtered.idx[k]

CountOf(s, x) == Cardinality({k \in DOMAIN s : s[k] = x})

\* C10: after filter_segments and write_output the written playlist holds
\* "#EXT-X-ENDLIST" exactly once, as its last line.
C10_EndListOnce ==
    (pc = "after_parse" /\ file.exists)
    => /\ file.content[Len(file.content)] = ENDLIST
       /\ CountOf(file.content, ENDLIST) = 1

----------------------------------------------------------------------------
(* Properties of write_output (SpecWrite) *)

\* C4: write_output writes one line per input line in the same order, a line
\* ending in ".ts" as base_url + "/" + line and every other line verbatim,
\* then a final "#EXT-X-ENDLIST" line.
C4_WriterOutput ==
    (pc = "after_parse")
    => /\ file.exists
       /\ Len(file.content) = Len(filtered.val) + 1
       /\ file.content[Len(file.content)] = ENDLIST
       /\ \A k \in DOMAIN filtered.val :
             LET line == filtered.val[k]
                 n    == Len(line)
             IN  IF n >= 3 /\ line[n - 2] = "." /\ line[n - 1] = "t" /\ line[n] = "s"
                 THEN /\ file.content[k] = base_url \o <<"/">> \o line
                      /\ file.content[k] # line
                 ELSE file.content[k] = line

\* a reference line and a directive line were written
C4_Witness ==
    /\ pc = "after_parse"
    /\ filtered.val = <<L_M3U, L_SegA>>
    /\ base_url = UrlJoinDot(U_Deep)
    /\ file.content = <<L_M3U, UrlJoinDot(U_Deep) \o <<"/">> \o L_SegA, ENDLIST>>

----------------------------------------------------------------------------
(* Properties of time_to_seconds (SpecTime) *)

Colons(s) == {k \in DOMAIN s : s[k] = ":"}

\* the three components of a string with exactly two colons
Components(s) ==
    LET c1 == CHOOSE k \in Colons(s) : \A j \in Colons(s) : k <= j
        c2 == CHOOSE k \in Colons(s) : \A j \in Colons(s) : j <= k
    IN  <<SubSeq(s, 1, c1 - 1), SubSeq(s, c1 + 1, c2 - 1), SubSeq(s, c2 + 1, Len(s))>>

IsNonNegativeInteger(c) == c # <<>> /\ \A k \in DOMAIN c : IsDigit(c[k])

TimeReturned == pc \in {"returned", "raised"}

\* C7 as stated: h*3600 + m*60 + s for three colon-separated non-negative
\* integers, the format error for every other string.
C7_NonNegativeOnly ==
    TimeReturned
    => IF /\ Cardinality(Colons(time_str)) = 2
          /\ \A k \in 1..3 : IsNonNegativeInteger(Components(time_str)[k])
       THEN LET c == Components(time_str)
            IN  time_ret = [kind |-> "ok",
                            val  |-> DigitsVal(c[1], 0) * 3600
                                       + DigitsVal(c[2], 0) * 60 + DigitsVal(c[3], 0)]
       ELSE time_ret = FormatError

\* C7 amended: h*3600 + m*60 + s for every string of exactly three
\* colon-separated components that int() accepts (a sign and surrounding
\* whitespace included), the format error for every other string.
C7_IntComponents ==
    TimeReturned
    => IF /\ Cardinality(Colons(time_str)) = 2
          /\ \A k \in 1..3 : PyInt(Components(time_str)[k]).ok
       THEN LET c == Components(time_str)
            IN  time_ret = [kind |-> "ok",
                            val  |-> PyInt(c[1]).val * 3600
                                       + PyInt(c[2]).val * 60 + PyInt(c[3]).val]
       ELSE time_ret = FormatError

\* "-1:1:1" is no format error: it gives -3600 + 60 + 1
C7_Witness ==
    /\ pc = "returned"
    /\ time_str = <<"-", "1", ":", "1", ":", "1">>
    /\ time_ret = [kind |-> "ok", val |-> 0 - 3539]

----------------------------------------------------------------------------
(* Properties of a run of main (Spec) *)

Printed(text) == \E k \in DOMAIN stdout : stdout[k].text = text

TimeErrors ==
    {"Invalid time format. Use hh:mm:ss.", "Start time must be before end time."}

\* the run has raised, or has ended with, a time-format or range error
TimeOrRangeError ==
    \/ exc.msg \in TimeErrors
    \/ \E k \in DOMAIN stdout : stdout[k].detail \in TimeErrors

\* C2: a malformed time string or start >= end fails before any I/O: no GET
\* is issued and no file is written in a run that ends with such an error.
C2_TimeErrorBeforeIO ==
    TimeOrRangeError => ("GET" \notin Range(events) /\ "open_w" \notin Range(events))

\* C3: when the fetch fails, parse_m3u8 reports it and returns without
\* raising, and the output file is never created or truncated in that run.
C3_FetchFailure ==
    (response \in Failures)
    => /\ Printed("Failed to download m3u8 file")
       /\ exc = NoExc
       /\ pc \in {"after_parse", "done", "crashed"}
       /\ ~Printed("Error") /\ ~Printed("An unexpected error occurred")
       /\ file = Absent
       /\ "open_w" \notin Range(events)

\* a run whose fetch timed out has ended
C3_Witness ==
    /\ pc = "done"
    /\ response = "Timeout"
    /\ stdout[1] = [text |-> "Failed to download m3u8 file", detail |-> "Timeout"]
    /\ file = Absent

\* C5: no exception escapes main.
C5_NothingEscapes == escaped = "none" /\ pc # "crashed"

\* C6: the converter is invoked only on a playlist file this run has written.
C6_ConvertAfterWrite ==
    \A k \in DOMAIN events :
        events[k] = "ffmpeg" => \E j \in 1..(k - 1) : events[j] = "open_w"

====
